---------------------------- MODULE Spec2Model ----------------------------
(***************************************************************************)
(* Thread lifecycle of tinyos3 (kernel_threads.c): sys_CreateThread,       *)
(* sys_ThreadSelf, sys_ThreadJoin, sys_ThreadDetach and sys_ThreadExit.    *)
(*                                                                         *)
(* Every system call runs with the kernel lock held, so a call is one      *)
(* atomic step up to the point where it returns or suspends.  The two      *)
(* suspension points are kernel_wait in sys_ThreadJoin (line 87) and       *)
(* kernel_sleep(EXITED) at the end of sys_ThreadExit (line 242).           *)
(*                                                                         *)
(* A PTCB is identified by a slot number (its address).  A slot is never   *)
(* handed out twice: a read through a pointer to a freed PTCB yields an    *)
(* arbitrary record (GarbagePTCB) instead, which covers whatever a later   *)
(* owner of the memory could have put there.  A write through such a       *)
(* pointer lands in the freed block and changes no live object.            *)
(***************************************************************************)
EXTENDS Integers, Sequences, FiniteSets, TLC

\* Number of PTCB slots (addresses) the model can hand out.
MaxPTCB == 5

\* Number of entries of a process's file table (MAX_FILEID in tinyos.h).
MAX_FILEID == 2

Slots == 1..MaxPTCB

\* Process ids: 1 is the initial task, 2 its child, 3 the child of 2.
Procs == {1, 2, 3}

\* Values a thread may pass to ThreadExit.
Vals == {7, 42}

VARIABLES
  kstate,        \* "running", "assert_failed" (line 200/201) or "hung" (line 210)
  heap,          \* slot -> "unused" | "live" | "freed"
  frees,         \* slot -> number of free() calls made on the PTCB
  ptcb,          \* slot -> [detached, exited, exitval, refcount]
  owner,         \* slot -> pid of the process the thread belongs to (0: none)
  tstate,        \* slot -> state of the thread bound to the PTCB
  jtarget,       \* slot -> the tid the thread is joining (0: none)
  jout,          \* slot -> whether the join in flight has a non-NULL exitval pointer
  jraced,        \* slot -> whether ThreadDetach was called on jtarget during the join
  exitarg,       \* slot -> the value the thread passed to ThreadExit
  detachOk,      \* slot -> whether a ThreadDetach of the PTCB has returned 0
  ptcb_list,     \* pid -> sequence of slots (PCB.ptcb_list)
  thread_count,  \* pid -> PCB.thread_count
  pstate,        \* pid -> "ALIVE" | "ZOMBIE"
  parent,        \* pid -> pid of the parent (0: none)
  children_list, \* pid -> sequence of pids
  exited_list,   \* pid -> sequence of pids
  FIDT,          \* pid -> sequence of MAX_FILEID file ids (0: NULL)
  args,          \* pid -> whether PCB.args is non-NULL
  main_thread,   \* pid -> slot of the main thread (0: NULL)
  fcb_refcount,  \* file id -> reference count of the FCB
  last           \* the call that made the last step and how it ended

threadVars == <<tstate, jtarget, jout, jraced>>
ptcbVars == <<heap, frees, ptcb, owner>>
procVars == <<ptcb_list, thread_count, pstate, parent, children_list,
              exited_list, FIDT, args, main_thread, fcb_refcount>>
ghostVars == <<exitarg, detachOk>>
vars == <<kstate, ptcbVars, threadVars, ghostVars, procVars, last>>

\* Everything a system call can change except the caller's own position.
kernelVars == <<kstate, ptcbVars, procVars>>

---------------------------------------------------------------------------
\* Helpers over the intrusive list (util.h rlist_*), lists held as sequences.

InList(l, x) == \E i \in 1..Len(l) : l[i] = x

RECURSIVE RemoveFrom(_, _)
RemoveFrom(l, x) ==
  IF l = <<>> THEN <<>>
  ELSE IF Head(l) = x THEN Tail(l)
       ELSE <<Head(l)>> \o RemoveFrom(Tail(l), x)

RECURSIVE CountLive(_)
CountLive(l) ==
  IF l = <<>> THEN 0
  ELSE (IF ptcb[Head(l)].exited = 0 THEN 1 ELSE 0) + CountLive(Tail(l))

\* Threads asleep on the exit_cv of PTCB t.
Waiters(t) == {j \in Slots : tstate[j] = "JOINWAIT" /\ jtarget[j] = t}

\* kernel_broadcast(&ptcb->exit_cv): every waiter becomes ready to run again.
Broadcast(ts, t) ==
  [j \in Slots |-> IF j \in Waiters(t) THEN "JOINWOKEN" ELSE ts[j]]

\* What a read of a PTCB can return once its memory has been freed.
GarbagePTCB ==
  [detached : {0, 1}, exited : {0, 1}, exitval : Vals, refcount : 0..2]

\* The PTCB as the code reads it through pointer t.
View(t) == IF heap[t] = "freed" THEN GarbagePTCB ELSE {ptcb[t]}

FreshPTCB == [detached |-> 0, exited |-> 0, exitval |-> 0, refcount |-> 0]

\* Lines 165-166: the exit value and the exited flag of the caller's PTCB.
ExitMark(r, x) == [r EXCEPT !.exitval = x, !.exited = 1]

\* The record of a call: op the system call, thr the caller, tid its argument
\* (or result), st how the step ended ("returned", "blocked", "exited" or
\* "halted"), ret the value returned, out whether the exitval pointer was
\* non-NULL, wrote and val the store through it, raced whether ThreadDetach
\* was called on the target while the join was asleep or woken, bcast the
\* processes whose child_exit was broadcast.
Call(o, c, t, s, r) ==
  [op |-> o, thr |-> c, tid |-> t, st |-> s, ret |-> r, out |-> FALSE,
   wrote |-> FALSE, val |-> 0, raced |-> FALSE, bcast |-> {}]

NoCall == Call("none", 0, 0, "none", 0)

\* A thread that is in user code and may make a system call.
CanCall(c) == kstate = "running" /\ tstate[c] = "READY"

---------------------------------------------------------------------------
\* The state the model starts from is one the process tree 1 -> 2 -> 3 reaches:
\* the initial task (pid 1) is asleep in WaitChild, its child 2 runs its main
\* thread, and 2's child 3 has exited with value 7, so that it is a ZOMBIE
\* on 2's exited_list (and still on 2's children_list, which only WaitChild
\* prunes).  The main thread of process p has PTCB p.  All three processes
\* opened file 1; process 3 has released it.
Init ==
  /\ kstate = "running"
  /\ heap = [s \in Slots |-> IF s \in Procs THEN "live" ELSE "unused"]
  /\ frees = [s \in Slots |-> 0]
  /\ ptcb = [s \in Slots |-> IF s = 3 THEN ExitMark(FreshPTCB, 7) ELSE FreshPTCB]
  /\ owner = [s \in Slots |-> IF s \in Procs THEN s ELSE 0]
  /\ tstate = [s \in Slots |-> CASE s = 1 -> "WAITCHILD"
                                 [] s = 2 -> "READY"
                                 [] s = 3 -> "EXITED"
                                 [] OTHER -> "NONE"]
  /\ jtarget = [s \in Slots |-> 0]
  /\ jout = [s \in Slots |-> FALSE]
  /\ jraced = [s \in Slots |-> FALSE]
  /\ exitarg = [s \in Slots |-> IF s = 3 THEN 7 ELSE 0]
  /\ detachOk = [s \in Slots |-> FALSE]
  /\ ptcb_list = [p \in Procs |-> <<p>>]
  /\ thread_count = [p \in Procs |-> IF p = 3 THEN 0 ELSE 1]
  /\ pstate = [p \in Procs |-> IF p = 3 THEN "ZOMBIE" ELSE "ALIVE"]
  /\ parent = [p \in Procs |-> p - 1]
  /\ children_list = [p \in Procs |-> IF p + 1 \in Procs THEN <<p + 1>> ELSE <<>>]
  /\ exited_list = [p \in Procs |-> IF p = 2 THEN <<3>> ELSE <<>>]
  /\ FIDT = [p \in Procs |-> [i \in 1..MAX_FILEID |->
                                IF i = 1 /\ p # 3 THEN 1 ELSE 0]]
  /\ args = [p \in Procs |-> p = 2]
  /\ main_thread = [p \in Procs |-> IF p = 3 THEN 0 ELSE p]
  /\ fcb_refcount = [f \in {1} |-> 2]
  /\ last = NoCall

\* A second starting state of the same tree, with all three processes running:
\* each has its main thread in user code and nothing on its exited_list.
\* Process 2 has also run a second thread (PTCB 4), which has exited with
\* value 42 and was never joined.  Processes 2 and 3 hold files 1 and 2,
\* the initial task holds file 1.
TreeInit ==
  /\ kstate = "running"
  /\ heap = [s \in Slots |-> IF s \in Procs \/ s = 4 THEN "live" ELSE "unused"]
  /\ frees = [s \in Slots |-> 0]
  /\ ptcb = [s \in Slots |-> IF s = 4 THEN ExitMark(FreshPTCB, 42) ELSE FreshPTCB]
  /\ owner = [s \in Slots |-> IF s \in Procs THEN s ELSE IF s = 4 THEN 2 ELSE 0]
  /\ tstate = [s \in Slots |-> CASE s \in Procs -> "READY"
                                 [] s = 4 -> "EXITED"
                                 [] OTHER -> "NONE"]
  /\ jtarget = [s \in Slots |-> 0]
  /\ jout = [s \in Slots |-> FALSE]
  /\ jraced = [s \in Slots |-> FALSE]
  /\ exitarg = [s \in Slots |-> IF s = 4 THEN 42 ELSE 0]
  /\ detachOk = [s \in Slots |-> FALSE]
  /\ ptcb_list = [p \in Procs |-> IF p = 2 THEN <<2, 4>> ELSE <<p>>]
  /\ thread_count = [p \in Procs |-> 1]
  /\ pstate = [p \in Procs |-> "ALIVE"]
  /\ parent = [p \in Procs |-> p - 1]
  /\ children_list = [p \in Procs |-> IF p + 1 \in Procs THEN <<p + 1>> ELSE <<>>]
  /\ exited_list = [p \in Procs |-> <<>>]
  /\ FIDT = [p \in Procs |-> [i \in 1..MAX_FILEID |->
                                IF i = 1 THEN 1
                                ELSE IF i = 2 /\ p # 1 THEN 2 ELSE 0]]
  /\ args = [p \in Procs |-> p # 1]
  /\ main_thread = [p \in Procs |-> p]
  /\ fcb_refcount = [f \in {1, 2} |-> IF f = 1 THEN 3 ELSE 2]
  /\ last = NoCall

---------------------------------------------------------------------------
\* acquire_ptcb: a new PTCB, linked to the thread and appended to the
\* process's ptcb_list, with no joiner registered.
acquire_ptcb(n, p) ==
  /\ heap' = [heap EXCEPT ![n] = "live"]
  /\ ptcb' = [ptcb EXCEPT ![n] = FreshPTCB]
  /\ owner' = [owner EXCEPT ![n] = p]
  /\ ptcb_list' = [ptcb_list EXCEPT ![p] = Append(@, n)]

increase_refcount(rc) == rc + 1

decrease_refcount(rc) == rc - 1

\* The address malloc returns: the lowest slot never handed out.
NewSlot == CHOOSE n \in Slots :
             heap[n] = "unused" /\ \A m \in Slots : heap[m] = "unused" => n <= m

\* A create that forgets to count the new thread.
CreateCountSame(n) == n

\* curproc->thread_count++ (line 27)
CreateCount(n) == n + 1

sys_CreateThread(c) ==
  /\ CanCall(c)
  /\ \E n \in Slots : heap[n] = "unused"
  /\ LET n == NewSlot
         p == owner[c]
     IN /\ acquire_ptcb(n, p)
        /\ thread_count' = [thread_count EXCEPT ![p] = CreateCount(@)]
        /\ tstate' = [tstate EXCEPT ![n] = "READY"]
        /\ last' = Call("Create", c, n, "returned", n)
  /\ UNCHANGED <<kstate, frees, jtarget, jout, jraced, ghostVars, pstate, parent,
                 children_list, exited_list, FIDT, args, main_thread,
                 fcb_refcount>>

sys_ThreadSelf(c) ==
  /\ CanCall(c)
  /\ last' = Call("Self", c, c, "returned", c)
  /\ UNCHANGED <<kernelVars, threadVars, ghostVars>>

---------------------------------------------------------------------------
\* sys_ThreadJoin

\* The checks without the self-join test of line 67.
JoinPrecondNoSelf(c, tid) ==
  \/ ~InList(ptcb_list[owner[c]], tid)
  \/ ptcb[tid].detached = 1

\* The three checks of lines 60-77, in the order the code makes them.
JoinPrecondFails(c, tid) ==
  \/ ~InList(ptcb_list[owner[c]], tid)
  \/ c = tid
  \/ ptcb[tid].detached = 1

\* A join that never waits.
JoinLoopNever(v) == FALSE

\* The condition of the wait loop (line 84), on the PTCB as read.
JoinLoopCond(v) == v.detached # 1 /\ v.exited # 1

\* A join that does not look at the detached flag after the wait.
JoinDetachedCheckSkipped(v) == FALSE

\* The check after the wait (line 95).
JoinDetachedCheck(v) == v.detached = 1

\* The condition under which the join frees the PTCB (line 106), on the
\* refcount as it stands after decrease_refcount.
JoinFreeCond(rc) == rc = 1

\* A join that does not register itself.
JoinRegisterNone(r) == r

\* increase_refcount(ptcb) (line 80)
JoinRegister(r) == [r EXCEPT !.refcount = increase_refcount(@)]

\* Lines 92-113: v is the PTCB as read through the pointer.
JoinFinish(c, t, out, v, opname) ==
  LET rc == decrease_refcount(v.refcount)
      err == JoinDetachedCheck(v)
      wr == ~err /\ out
      doFree == ~err /\ JoinFreeCond(rc)
  IN /\ ptcb' = IF heap[t] = "live" THEN [ptcb EXCEPT ![t].refcount = rc]
                ELSE ptcb
     /\ heap' = IF doFree THEN [heap EXCEPT ![t] = "freed"] ELSE heap
     /\ frees' = IF doFree THEN [frees EXCEPT ![t] = @ + 1] ELSE frees
     /\ ptcb_list' = IF doFree
                     THEN [q \in Procs |-> RemoveFrom(ptcb_list[q], t)]
                     ELSE ptcb_list
     /\ tstate' = [tstate EXCEPT ![c] = "READY"]
     /\ jtarget' = [jtarget EXCEPT ![c] = 0]
     /\ jout' = [jout EXCEPT ![c] = FALSE]
     /\ jraced' = [jraced EXCEPT ![c] = FALSE]
     /\ last' = [Call(opname, c, t, "returned", IF err THEN -1 ELSE 0)
                   EXCEPT !.out = out, !.wrote = wr,
                          !.val = IF wr THEN v.exitval ELSE 0,
                          !.raced = jraced[c]]
     /\ UNCHANGED <<kstate, owner, ghostVars, thread_count, pstate, parent,
                    children_list, exited_list, FIDT, args, main_thread,
                    fcb_refcount>>

\* kernel_wait(&ptcb->exit_cv, SCHED_USER) (line 87): the caller sleeps.
JoinBlock(c, t, out, opname) ==
  /\ tstate' = [tstate EXCEPT ![c] = "JOINWAIT"]
  /\ jtarget' = [jtarget EXCEPT ![c] = t]
  /\ jout' = [jout EXCEPT ![c] = out]
  /\ jraced' = jraced
  /\ last' = [Call(opname, c, t, "blocked", 0) EXCEPT !.out = out]

\* The call, up to its return or its first sleep.
sys_ThreadJoin(c, tid, out) ==
  /\ CanCall(c)
  /\ IF JoinPrecondFails(c, tid)
     THEN /\ last' = [Call("Join", c, tid, "returned", -1) EXCEPT !.out = out]
          /\ UNCHANGED <<kernelVars, threadVars, ghostVars>>
     ELSE LET v == JoinRegister(ptcb[tid])
          IN IF JoinLoopCond(v)
             THEN /\ ptcb' = [ptcb EXCEPT ![tid] = v]
                  /\ JoinBlock(c, tid, out, "Join")
                  /\ UNCHANGED <<kstate, heap, frees, owner, ghostVars,
                                 procVars>>
             ELSE JoinFinish(c, tid, out, v, "Join")

\* The caller runs again after a broadcast of the exit_cv and re-tests the
\* loop condition.
JoinResume(c) ==
  /\ kstate = "running"
  /\ tstate[c] = "JOINWOKEN"
  /\ \E v \in View(jtarget[c]) :
       IF JoinLoopCond(v)
       THEN /\ JoinBlock(c, jtarget[c], jout[c], "JoinResume")
            /\ UNCHANGED <<kernelVars, ghostVars>>
       ELSE JoinFinish(c, jtarget[c], jout[c], v, "JoinResume")

---------------------------------------------------------------------------
\* sys_ThreadDetach

\* The checks without the exited test of line 138.
DetachPrecondOnlyFind(c, tid) == ~InList(ptcb_list[owner[c]], tid)

\* The two checks of lines 131-141.
DetachPrecondFails(c, tid) ==
  \/ ~InList(ptcb_list[owner[c]], tid)
  \/ ptcb[tid].exited = 1

\* A detach that also drops the joiners' references.
DetachMarkAndReset(r) == [r EXCEPT !.detached = 1, !.refcount = 0]

\* ptcb->detached = 1 (line 144)
DetachMark(r) == [r EXCEPT !.detached = 1]

\* A detach that sets the flag and wakes nobody.
DetachWakeNone(ts, tid) == ts

\* kernel_broadcast(&ptcb->exit_cv) (line 147)
DetachWake(ts, tid) == Broadcast(ts, tid)

\* The joins in flight on tid have now been raced by a detach.
Raced(tid) ==
  [j \in Slots |-> jraced[j] \/ (jtarget[j] = tid /\
                                 tstate[j] \in {"JOINWAIT", "JOINWOKEN"})]

sys_ThreadDetach(c, tid) ==
  /\ CanCall(c)
  /\ jraced' = Raced(tid)
  /\ IF DetachPrecondFails(c, tid)
     THEN /\ last' = Call("Detach", c, tid, "returned", -1)
          /\ UNCHANGED <<kernelVars, tstate, jtarget, jout, ghostVars>>
     ELSE /\ ptcb' = [ptcb EXCEPT ![tid] = DetachMark(@)]
          /\ tstate' = DetachWake(tstate, tid)
          /\ detachOk' = [detachOk EXCEPT ![tid] = TRUE]
          /\ last' = Call("Detach", c, tid, "returned", 0)
          /\ UNCHANGED <<kstate, heap, frees, owner, jtarget, jout, exitarg,
                         procVars>>

---------------------------------------------------------------------------
\* sys_ThreadExit

\* kernel_broadcast(&ptcb->exit_cv) (line 169)
ExitWake(ts, t) == Broadcast(ts, t)

RECURSIVE Reverse(_)
Reverse(l) == IF l = <<>> THEN <<>> ELSE Reverse(Tail(l)) \o <<Head(l)>>

\* curproc->thread_count-- (line 172)
ExitCount(n) == n - 1

\* if(curproc->thread_count == 0) (line 175)
LastThread(tc) == tc = 0

\* The condition of the sweep loop (line 210): it is entered, and stays
\* entered, while is_rlist_empty(&curproc->ptcb_list) is nonzero.
SweepLoopCond(l) == l = <<>>

\* Lines 177-198 for process p: the lists after re-parenting.
\* The children are popped from the front of p's list and pushed on the front
\* of the initial task's list; p's exited list is appended to the initial
\* task's; p is pushed on the front of its parent's exited list.
ReparentChildren(p) ==
  [q \in Procs |->
     IF p = 1 THEN children_list[q]
     ELSE IF q = p THEN <<>>
     ELSE IF q = 1 THEN Reverse(children_list[p]) \o children_list[1]
     ELSE children_list[q]]

\* A re-parenting that moves the list nodes and leaves the parent pointers.
ReparentParentKeep(p) == parent

ReparentParent(p) ==
  [q \in Procs |->
     IF p # 1 /\ InList(children_list[p], q) THEN 1 ELSE parent[q]]

ReparentExited(p) ==
  LET a == [q \in Procs |->
              IF p = 1 THEN exited_list[q]
              ELSE IF q = p THEN <<>>
              ELSE IF q = 1 THEN exited_list[1] \o exited_list[p]
              ELSE exited_list[q]]
  IN IF p = 1 THEN a
     ELSE [a EXCEPT ![parent[p]] = <<p>> \o @]

\* The child_exit condition variables broadcast by lines 191 and 196.
ChildExitBroadcasts(p) ==
  IF p = 1 THEN {}
  ELSE (IF exited_list[p] # <<>> THEN {1} ELSE {}) \cup {parent[p]}

\* A cleanup that drops the entries without FCB_decref.
DecrefNone(rc, fs) == rc

\* Lines 224-229: every non-NULL entry is decref'ed and set to NULL.
RECURSIVE DecrefAll(_, _)
DecrefAll(rc, fs) ==
  IF fs = <<>> THEN rc
  ELSE DecrefAll(IF Head(fs) # 0 THEN [rc EXCEPT ![Head(fs)] = @ - 1] ELSE rc,
                 Tail(fs))

sys_ThreadExit(c, x) ==
  LET p == owner[c]
      tc == ExitCount(thread_count[p])
      ch == ReparentChildren(p)
      ex == ReparentExited(p)
      bc == ChildExitBroadcasts(p)
      ev(s) == [Call("Exit", c, c, s, 0) EXCEPT !.val = x, !.bcast =
                  IF LastThread(tc) THEN bc ELSE {}]
  IN /\ CanCall(c)
     /\ ptcb' = [ptcb EXCEPT ![c] = ExitMark(@, x)]
     /\ exitarg' = [exitarg EXCEPT ![c] = x]
     /\ thread_count' = [thread_count EXCEPT ![p] = tc]
     /\ UNCHANGED <<heap, frees, owner, jtarget, jout, jraced, detachOk,
                    ptcb_list>>
     /\ IF ~LastThread(tc)
        THEN \* other threads remain: kernel_sleep(EXITED)
             /\ tstate' = [ExitWake(tstate, c) EXCEPT ![c] = "EXITED"]
             /\ last' = ev("exited")
             /\ UNCHANGED <<kstate, pstate, parent, children_list, exited_list,
                            FIDT, args, main_thread, fcb_refcount>>
        ELSE /\ children_list' = ch
             /\ exited_list' = ex
             /\ parent' = ReparentParent(p)
             /\ IF ch[p] # <<>> \/ ex[p] # <<>>
                THEN \* one of the assertions of lines 200-201 fails
                     /\ kstate' = "assert_failed"
                     /\ tstate' = ExitWake(tstate, c)
                     /\ last' = ev("halted")
                     /\ UNCHANGED <<pstate, FIDT, args, main_thread,
                                    fcb_refcount>>
                ELSE IF SweepLoopCond(ptcb_list[p])
                THEN \* the sweep pops the empty list again and again
                     /\ kstate' = "hung"
                     /\ tstate' = ExitWake(tstate, c)
                     /\ last' = ev("halted")
                     /\ UNCHANGED <<pstate, FIDT, args, main_thread,
                                    fcb_refcount>>
                ELSE /\ kstate' = kstate
                     /\ args' = [args EXCEPT ![p] = FALSE]
                     /\ fcb_refcount' = DecrefAll(fcb_refcount, FIDT[p])
                     /\ FIDT' = [FIDT EXCEPT ![p] = [i \in 1..MAX_FILEID |-> 0]]
                     /\ main_thread' = [main_thread EXCEPT ![p] = 0]
                     /\ pstate' = [pstate EXCEPT ![p] = "ZOMBIE"]
                     /\ tstate' = [ExitWake(tstate, c) EXCEPT ![c] = "EXITED"]
                     /\ last' = ev("exited")

---------------------------------------------------------------------------
Next ==
  \/ \E c \in Slots : sys_CreateThread(c)
  \/ \E c \in Slots : sys_ThreadSelf(c)
  \/ \E c \in Slots, tid \in Slots, out \in BOOLEAN : sys_ThreadJoin(c, tid, out)
  \/ \E c \in Slots : JoinResume(c)
  \/ \E c \in Slots, tid \in Slots : sys_ThreadDetach(c, tid)
  \/ \E c \in Slots, x \in Vals : sys_ThreadExit(c, x)

Spec == Init /\ [][Next]_vars

TreeSpec == TreeInit /\ [][Next]_vars

\* The scheduler runs every thread that is ready: a woken joiner gets to
\* re-test its loop condition.
FairSpec == Spec /\ \A c \in Slots : WF_vars(JoinResume(c))

TypeOK ==
  /\ kstate \in {"running", "assert_failed", "hung"}
  /\ \A s \in Slots : heap[s] \in {"unused", "live", "freed"}
  /\ \A s \in Slots : tstate[s] \in {"NONE", "READY", "WAITCHILD", "JOINWAIT", "JOINWOKEN", "EXITED"}

---------------------------------------------------------------------------
\* Properties

\* The last step was a ThreadJoin returning to its caller, either straight
\* from the call or after having slept.
JoinReturned == last.op \in {"Join", "JoinResume"} /\ last.st = "returned"

\* The joins that have passed the checks and not yet returned, per target.
InFlight(t) ==
  {j \in Slots : tstate[j] \in {"JOINWAIT", "JOINWOKEN"} /\ jtarget[j] = t}

\* What the calls leave alone when they change nothing: the kernel's state
\* and every thread's position.
Untouched == UNCHANGED <<kernelVars, tstate, jtarget, jout, ghostVars>>

\* C1: every ThreadJoin that returns success with a non-null output has
\* stored in it exactly the value its target passed to ThreadExit.
C1_JoinStoresExitValue ==
  (JoinReturned /\ last.ret = 0 /\ last.out)
    => (last.wrote /\ last.val = exitarg[last.tid])

\* C2: when the only joiner of T returns success, T's PTCB has been removed
\* from the process's ptcb_list and freed.
C2_SoleJoinReclaims ==
  (JoinReturned /\ last.ret = 0 /\ InFlight(last.tid) = {})
    => /\ heap[last.tid] = "freed"
       /\ ~InList(ptcb_list[owner[last.tid]], last.tid)

\* C3: a PTCB is freed at most once.
C3_FreedAtMostOnce == \A s \in Slots : frees[s] <= 1

\* C4: once ThreadDetach(T) has returned success, no ThreadJoin(T) returns
\* success, whether it was called afterwards or was asleep on T at the time.
C4_NoJoinSuccessAfterDetach ==
  (JoinReturned /\ last.ret = 0) => ~detachOk[last.tid]

\* A join that slept on T, was woken by the detach and ran after T had also
\* exited returns the error.
C4_Witness ==
  /\ last.op = "JoinResume" /\ last.st = "returned" /\ last.ret = -1
  /\ detachOk[last.tid]
  /\ tstate[last.tid] = "EXITED"

\* C5: under fair scheduling, every join that is in flight on a target whose
\* ThreadDetach has succeeded wakes and returns the error.
C5_DetachWakesJoiners ==
  \A j \in Slots :
    (/\ tstate[j] \in {"JOINWAIT", "JOINWOKEN"}
     /\ detachOk[jtarget[j]])
      ~> (/\ last.op = "JoinResume" /\ last.thr = j
          /\ last.st = "returned" /\ last.ret = -1)

\* One of two joiners woken by the detach of a running thread has returned
\* the error while the other has yet to run.
C5_Witness ==
  /\ last.op = "JoinResume" /\ last.st = "returned" /\ last.ret = -1
  /\ last.raced
  /\ detachOk[last.tid]
  /\ tstate[last.tid] = "READY"
  /\ \E j \in Slots : tstate[j] = "JOINWOKEN" /\ jtarget[j] = last.tid

\* C6: a join asleep on a never-detached T that runs again after T has called
\* ThreadExit returns success: it neither returns the error nor goes back to
\* sleep.
C6_ExitWakesJoinersToSuccess ==
  (/\ last.op = "JoinResume"
   /\ tstate[last.tid] = "EXITED"
   /\ ~detachOk[last.tid])
    => (last.st = "returned" /\ last.ret = 0)

C8_RacedJoinOutcome ==
  (JoinReturned /\ last.raced)
    => \/ last.ret = -1 /\ ~last.wrote
       \/ /\ last.ret = 0
          /\ ~detachOk[last.tid]
          /\ tstate[last.tid] = "EXITED"
          /\ last.out => (last.wrote /\ last.val = exitarg[last.tid])

\* C9: a ThreadJoin whose tid is not on the caller's ptcb_list, is the caller
\* itself, or is already detached returns the error at once: it does not
\* sleep, stores nothing and changes no state.
C9_JoinPreconditionErrors ==
  [][(/\ last'.op = "Join"
      /\ \/ ~InList(ptcb_list[owner[last'.thr]], last'.tid)
         \/ last'.tid = last'.thr
         \/ ptcb[last'.tid].detached = 1)
       => /\ last'.st = "returned" /\ last'.ret = -1 /\ ~last'.wrote
          /\ UNCHANGED <<kernelVars, threadVars, ghostVars>>]_vars

\* A join of a detached thread of the caller's own process has returned the
\* error.
C9_Witness ==
  /\ last.op = "Join" /\ last.st = "returned" /\ last.ret = -1
  /\ last.tid # last.thr
  /\ InList(ptcb_list[owner[last.thr]], last.tid)
  /\ ptcb[last.tid].detached = 1

\* C10: for every process, the PTCBs on its ptcb_list that have not exited
\* are as many as its thread_count.
C10_ThreadCountMatchesList ==
  \A p \in Procs : CountLive(ptcb_list[p]) = thread_count[p]

\* A process with one running thread, one exited thread still on its list
\* and one PTCB already freed by a join.
C10_Witness ==
  \E p \in Procs :
    /\ thread_count[p] = 1
    /\ Len(ptcb_list[p]) = 2
    /\ \E s \in Slots : owner[s] = p /\ heap[s] = "freed"

\* How many times x occurs on the list l.
Occurs(l, x) == Cardinality({i \in 1..Len(l) : l[i] = x})

\* The step is a ThreadExit of the last thread of the process p.
LastExit(p) ==
  /\ last'.op = "Exit"
  /\ owner[last'.thr] = p
  /\ thread_count'[p] = 0

\* C11: when the last thread of a process other than the initial task has
\* exited, the process has no children and no exited children, every entry
\* of its file table is null and its file has been released once, and the
\* process is exactly once on the exited list of its parent; a zombie stays
\* exactly once on the exited list of the process that is then its parent.
C11_LastExitLeavesProcessStripped ==
  [][/\ \A p \in Procs \ {1} :
          LastExit(p)
          => /\ children_list'[p] = <<>>
             /\ exited_list'[p] = <<>>
             /\ \A i \in 1..MAX_FILEID : FIDT'[p][i] = 0
             /\ \A f \in DOMAIN fcb_refcount :
                  fcb_refcount'[f] = fcb_refcount[f]
                    - Cardinality({i \in 1..MAX_FILEID : FIDT[p][i] = f})
             /\ Occurs(exited_list'[parent[p]], p) = 1
     /\ \A q \in Procs \ {1} :
          pstate'[q] = "ZOMBIE"
          => /\ Occurs(exited_list'[parent'[q]], q) = 1
             /\ children_list'[q] = <<>> /\ exited_list'[q] = <<>>
             /\ \A i \in 1..MAX_FILEID : FIDT'[q][i] = 0]_vars

\* Process 2 has exited after its child: it is a zombie on the initial
\* task's exited list next to that child, and its two files are released.
C11_Witness ==
  /\ last.op = "Exit" /\ last.st = "exited" /\ owner[last.thr] = 2
  /\ pstate[2] = "ZOMBIE" /\ pstate[3] = "ZOMBIE"
  /\ Occurs(exited_list[1], 2) = 1 /\ Occurs(exited_list[1], 3) = 1
  /\ FIDT[2] = [i \in 1..MAX_FILEID |-> 0]
  /\ fcb_refcount[2] = 0

\* C12: every call of ThreadExit comes to its end and leaves the calling
\* thread in the state EXITED.
C12_ExitAlwaysCompletes ==
  last.op = "Exit" => (last.st = "exited" /\ tstate[last.thr] = "EXITED")

\* C13: when the last thread of a process has exited, the teardown has
\* released every PTCB of the process and its ptcb_list is empty.
C13_SweepEmptiesList ==
  \A p \in Procs :
    (last.op = "Exit" /\ last.st = "exited" /\ owner[last.thr] = p
       /\ thread_count[p] = 0)
    => /\ ptcb_list[p] = <<>>
       /\ \A s \in Slots : owner[s] = p => heap[s] = "freed"

\* C14: no PTCB is released while a join of it that has taken its reference
\* has not yet returned.
C14_NoReleaseUnderJoiner ==
  \A t \in Slots : heap[t] = "freed" => InFlight(t) = {}

\* The join that has just returned had passed the checks of lines 60-77:
\* it went to sleep first, or it returned success at once.
PastChecks == JoinReturned /\ (last.op = "JoinResume" \/ last.ret = 0)

\* C15: a ThreadJoin that has passed its checks returns only when its target
\* has exited or has been detached, and it stores an exit value only when
\* the exited flag of its target is set.
C15_JoinWaitsForExitOrDetach ==
  /\ PastChecks => (exitarg[last.tid] # 0 \/ detachOk[last.tid])
  /\ (JoinReturned /\ last.wrote)
       => (exitarg[last.tid] # 0 /\ ptcb[last.tid].exited = 1)

\* A join that slept has returned success and stored the value.
C15_Witness ==
  /\ last.op = "JoinResume" /\ last.st = "returned" /\ last.ret = 0
  /\ last.wrote /\ ~last.raced
  /\ ptcb[last.tid].exited = 1

\* The lists of the initial task after the step hold what they held, what
\* the lists of p held and, on the exited list, p itself if the initial task
\* is its parent; the children moved have the initial task as parent.
MovedToRoot(p) ==
  /\ \A q \in Procs :
       /\ Occurs(children_list'[1], q)
            = Occurs(children_list[1], q) + Occurs(children_list[p], q)
       /\ Occurs(children_list'[1], q) <= 1
       /\ InList(children_list[p], q) => parent'[q] = 1
       /\ Occurs(exited_list'[1], q)
            = Occurs(exited_list[1], q) + Occurs(exited_list[p], q)
              + (IF q = p /\ parent[p] = 1 THEN 1 ELSE 0)
       /\ Occurs(exited_list'[1], q) <= 1
  /\ parent[p] \in last'.bcast

C17_ZombieIffNoThreads ==
  [][/\ \A p \in Procs : pstate'[p] = "ZOMBIE" <=> thread_count'[p] = 0
     /\ last'.op = "Exit"
        => LET p == owner[last'.thr]
           IN  IF thread_count'[p] # 0
               THEN /\ pstate'[p] = "ALIVE"
                    /\ UNCHANGED <<pstate, ptcb_list, FIDT, children_list,
                                   exited_list, main_thread, parent,
                                   fcb_refcount>>
               ELSE /\ pstate'[p] = "ZOMBIE"
                    /\ main_thread'[p] = 0]_vars

\* C18: the assertions of the teardown hold whenever they are reached.
C18_TeardownAssertionsHold == kstate # "assert_failed"

C20_DetachSetsOnlyFlag ==
  [][/\ (last'.op = "Detach" /\ last'.ret = 0)
        => /\ ptcb' = [ptcb EXCEPT ![last'.tid].detached = 1]
           /\ InList(ptcb_list'[owner[last'.thr]], last'.tid)
           /\ UNCHANGED <<kstate, heap, frees, owner, procVars>>
     /\ \A t \in Slots : detachOk'[t] => (frees'[t] = 0 /\ heap'[t] = "live")
    ]_vars

\* A ThreadDetach has returned success on a thread that a join waits for.
C20_Witness ==
  /\ last.op = "Detach" /\ last.ret = 0
  /\ ptcb[last.tid].detached = 1
  /\ ptcb[last.tid].refcount = 1
  /\ \E j \in Slots : tstate[j] = "JOINWOKEN" /\ jtarget[j] = last.tid

=============================================================================
